---- MODULE Spec2Model ----
(***************************************************************************)
(* Session-scoped data model of the Viatra Streamlit application           *)
(* (src/app.py): st.session_state and the button handlers that mutate it.  *)
(* One action is one rerun of the script: the widgets deliver their        *)
(* values, at most one button is pressed, its handler runs, and the page   *)
(* that is selected is rendered from the session state.                    *)
(*                                                                         *)
(* Text is a sequence of one-character strings, so that split, strip and   *)
(* join are computed and not assumed.                                      *)
(***************************************************************************)
EXTENDS Integers, Sequences, FiniteSets, TLC

VARIABLES
    page,            \* st.radio "Go to": the page the last rerun rendered
    active_profile,  \* ss.active_profile
    profiles,        \* ss.profiles : name -> {dob, gender}
    vitals,          \* ss.vitals   : name -> rows of the DataFrame, in index order
    meds,            \* ss.meds     : name -> list of text
    records,         \* ss.records  : name -> list
    passport,        \* ss.passport : name -> {immunizations, allergies, conditions}
    patients,        \* ss.patients : rows of the DataFrame, in index order
    roster,          \* ss.roster   : rows of the DataFrame, in index order
    chat,            \* ss.chat     : list of messages
    pilot_requests,  \* ss.pilot_requests : list of requests
    view,            \* what the last rerun handed to the output widgets
    last             \* the last interaction: operation, inputs, outcome

consumerVars == <<active_profile, profiles, vitals, meds, records, passport>>
hospitalVars == <<patients, roster, chat>>
homeVars == <<pilot_requests>>
vars == <<page, active_profile, profiles, vitals, meds, records, passport,
          patients, roster, chat, pilot_requests, view, last>>

-----------------------------------------------------------------------------
(* Bounds of the model *)

MaxLog == 2           \* rows per vitals log, except in SpecTail
MaxTailLog == 7       \* rows of the vitals log in SpecTail
MaxTextLen == 4       \* length of the texts typed into "Current meds"
MaxRoster == 2        \* rows of the roster
MaxRows == 1          \* rows per log and table in Spec

(* Program constants *)

SysMin == 80
SysMax == 220
SysDefault == 120
DiaMin == 40
DiaMax == 130
DiaDefault == 80
HrMin == 40
HrMax == 200
HrDefault == 72
GluMin == 60
GluMax == 400
GluDefault == 95
AgeMin == 0
AgeMax == 120
TailRows == 6
PilotTailRows == 5

HomePage == "Home / About"
ConsumerPage == "Viatra (Consumer)"
HospitalPage == "Viatra (Hospital)"
Pages == {HomePage, ConsumerPage, HospitalPage}

SexOptions == {"M", "F", "Other"}

\* The options of the "Shift" select box, in the order they are declared
ShiftOptions == <<"Morning", "Evening", "Night">>

UseCaseOptions ==
    {"Consumer pilot", "Hospital pilot", "Integration partner", "Research collaboration"}

ChatAuthor == "Dr. Demo"

None == "None"

-----------------------------------------------------------------------------
(* Python and pandas helpers *)

Max(a, b) == IF a >= b THEN a ELSE b
Min(a, b) == IF a <= b THEN a ELSE b

\* dict[k] = v
Put(d, k, v) == [x \in (DOMAIN d) \cup {k} |-> IF x = k THEN v ELSE d[x]]

IsSpace(c) == c = " "

\* str.split(","): the fragments between the commas; never an empty list
RECURSIVE SplitComma(_)
SplitComma(s) ==
    IF \A i \in 1..Len(s) : s[i] # ","
    THEN <<s>>
    ELSE LET i == CHOOSE j \in 1..Len(s) :
                      s[j] = "," /\ \A k \in 1..(j-1) : s[k] # ","
         IN <<SubSeq(s, 1, i-1)>> \o SplitComma(SubSeq(s, i+1, Len(s)))

\* str.strip(): leading and trailing whitespace removed
RECURSIVE LStrip(_)
LStrip(s) == IF s # <<>> /\ IsSpace(Head(s)) THEN LStrip(Tail(s)) ELSE s

RECURSIVE RStrip(_)
RStrip(s) ==
    IF s # <<>> /\ IsSpace(s[Len(s)]) THEN RStrip(SubSeq(s, 1, Len(s)-1)) ELSE s

Strip(s) == RStrip(LStrip(s))

\* [x.strip() for x in fragments if x.strip()]
RECURSIVE StripNonEmpty(_)
StripNonEmpty(frags) ==
    IF frags = <<>> THEN <<>>
    ELSE LET x == Strip(Head(frags))
         IN (IF x # <<>> THEN <<x>> ELSE <<>>) \o StripNonEmpty(Tail(frags))

\* The mutant of ParseList: [x for x in text.split(",") if x.strip()], the
\* fragments that are kept are not stripped.
ParseListNoStrip(text) == SelectSeq(SplitComma(text), LAMBDA x : Strip(x) # <<>>)

\* [x.strip() for x in text.split(",") if x.strip()]
ParseList(text) == StripNonEmpty(SplitComma(text))

\* ", ".join(items)
RECURSIVE Join(_)
Join(items) ==
    IF items = <<>> THEN <<>>
    ELSE IF Len(items) = 1 THEN Head(items)
    ELSE Head(items) \o <<",", " ">> \o Join(Tail(items))

\* The mutant of TailOf: the first n rows (DataFrame.head) instead of the last.
TailOfHead(df, n) == SubSeq(df, 1, Min(n, Len(df)))

\* DataFrame.tail(n) for n >= 0: iloc[0:0] for n = 0, else iloc[-n:]
TailOf(df, n) ==
    IF n = 0 THEN <<>> ELSE SubSeq(df, Max(1, Len(df) - n + 1), Len(df))

\* The mutant of NumberInput: max_value is not enforced.
NumberInputNoMax(lo, hi, v) == lo <= v

\* st.number_input(label, min_value, max_value, value): the widget delivers
\* only values within [min_value, max_value]
NumberInput(lo, hi, v) == lo <= v /\ v <= hi

\* st.selectbox(label, options): the widget delivers only one of its options
Selectbox(options, v) == v \in options

-----------------------------------------------------------------------------
(* Initial session state *)

EmptyPassport == [immunizations |-> <<>>, allergies |-> <<>>, conditions |-> <<>>]
NewProfile == [dob |-> None, gender |-> None]

\* The record of a rerun: the operation asked for, the values typed or
\* picked, and what became of it: "applied", "ignored" (the handler's
\* condition was false) or "refused" (a widget does not deliver the value).
\* error is the exception or st.error the rerun surfaces: the script raises
\* none and calls no st.error, so it is "none" in every handler.
NoArgs == [none |-> TRUE]
Interaction(op, outcome, args) ==
    [op |-> op, outcome |-> outcome, error |-> "none", args |-> args]

Init ==
    /\ page = HomePage
    /\ active_profile = "Me"
    /\ profiles = [n \in {"Me"} |-> NewProfile]
    /\ vitals = [n \in {"Me"} |-> <<>>]
    /\ meds = [n \in {"Me"} |-> <<>>]
    /\ records = [n \in {"Me"} |-> <<>>]
    /\ passport = [n \in {"Me"} |-> EmptyPassport]
    /\ patients = <<>>
    /\ roster = <<>>
    /\ chat = <<>>
    /\ pilot_requests = <<>>
    /\ view = [page |-> HomePage]
    /\ last = Interaction("start", "applied", NoArgs)

-----------------------------------------------------------------------------
(* What a rerun of a page hands to its output widgets *)

\* The mutant of ExportPassport: the document of the first profile, "Me",
\* whatever the active profile is.
ExportPassportOfMe(ap, pp) == pp["Me"] @@ [profile |-> ap]

\* json.dumps({"profile": active_profile, **passport[active_profile]}): the
\* document that is serialised (keys of the passport override "profile")
ExportPassport(ap, pp) == pp[ap] @@ [profile |-> ap]

\* st.info(...) if vitals_df.empty else st.table(vitals_df.tail(6))
VitalsTable(df) == IF df = <<>> THEN <<>> ELSE TailOf(df, TailRows)

ConsumerView(ap, pp, vt) ==
    [page |-> ConsumerPage,
     passport_payload |-> ExportPassport(ap, pp),
     vitals_table |-> VitalsTable(vt[ap])]

\* st.dataframe(st.session_state.patients)
HospitalView(pt) == [page |-> HospitalPage, patients |-> pt]

HomeView == [page |-> HomePage]

\* Strings that are compared are sequences of code points.
Range(f) == {f[i] : i \in DOMAIN f}

\* str < str: the first code point that differs decides, a proper prefix is less
StrLess(a, b) ==
    \E i \in 1..(Min(Len(a), Len(b)) + 1) :
        /\ \A k \in 1..(i - 1) : a[k] = b[k]
        /\ \/ i > Len(a) /\ i <= Len(b)
           \/ i <= Len(a) /\ i <= Len(b) /\ a[i] < b[i]

\* The code points of the shift labels
CodePoints(label) ==
    CASE label = "Morning" -> <<77, 111, 114, 110, 105, 110, 103>>
      [] label = "Evening" -> <<69, 118, 101, 110, 105, 110, 103>>
      [] label = "Night" -> <<78, 105, 103, 104, 116>>

\* date.isoformat(): "YYYY-MM-DD", zero-padded, as code points ("0" is 48, "-" is 45)
Digits(n, width) == [i \in 1..width |-> 48 + ((n \div (10 ^ (width - i))) % 10)]
IsoFormat(d) == Digits(d[1], 4) \o <<45>> \o Digits(d[2], 2) \o <<45>> \o Digits(d[3], 2)

\* The order of sort_values(by=["date", "shift"]): both columns hold strings
RowLess(a, b) ==
    \/ StrLess(a.date, b.date)
    \/ a.date = b.date /\ StrLess(CodePoints(a.shift), CodePoints(b.shift))

\* One row put into sorted rows, behind every row that is not greater
InsertRow(sorted, r) ==
    LET k == Cardinality({i \in DOMAIN sorted : ~RowLess(r, sorted[i])})
    IN SubSeq(sorted, 1, k) \o <<r>> \o SubSeq(sorted, k + 1, Len(sorted))

\* DataFrame.sort_values(by=["date", "shift"]): ascending, rows with equal
\* keys in their index order
RECURSIVE SortValues(_)
SortValues(df) ==
    IF df = <<>> THEN <<>>
    ELSE InsertRow(SortValues(SubSeq(df, 1, Len(df) - 1)), df[Len(df)])

\* The tabs of the Hospital page: st.dataframe(patients),
\* st.dataframe(roster.sort_values(...)), st.table(chat)
HospitalTabs(pt, rs, ch) ==
    HospitalView(pt) @@ [roster |-> SortValues(rs), chat |-> ch]

\* The Home page: st.table(pd.DataFrame(pilot_requests).tail(5))
HomeTable(pr) == HomeView @@ [pilot_requests |-> TailOf(pr, PilotTailRows)]

-----------------------------------------------------------------------------
(* Navigation: a rerun with no button pressed *)

Navigate(p) ==
    /\ p \in Pages
    /\ page' = p
    /\ view' = CASE p = ConsumerPage -> ConsumerView(active_profile, passport, vitals)
                 [] p = HospitalPage -> HospitalTabs(patients, roster, chat)
                 [] OTHER -> HomeTable(pilot_requests)
    /\ last' = Interaction("navigate", "applied", [page |-> p])
    /\ UNCHANGED <<consumerVars, hospitalVars, homeVars>>

-----------------------------------------------------------------------------
(* Viatra (Consumer) *)

\* "Active profile": active = st.selectbox(..., prof_names, ...);
\* if active != ss.active_profile: ss.active_profile = active
\* The mutant of SelectedProfile: the selection is never stored.
SelectedProfileStuck(name) == active_profile

\* The value the select box returns: the name picked if it is one of its
\* options, else the option it already shows, index(ss.active_profile)
SelectedProfile(name) ==
    IF Selectbox(DOMAIN profiles, name) THEN name ELSE active_profile

SelectActive(name) ==
    /\ page = ConsumerPage
    /\ active_profile' = SelectedProfile(name)
    /\ last' = Interaction("select_active",
                           IF Selectbox(DOMAIN profiles, name)
                           THEN "applied" ELSE "refused",
                           [name |-> name])
    /\ view' = ConsumerView(active_profile', passport, vitals)
    /\ UNCHANGED <<page, profiles, vitals, meds, records, passport, hospitalVars, homeVars>>

\* The mutant of AddProfileApplies: the duplicate test is dropped, so a
\* name that is present is created again.
AddProfileAppliesAnyName(new_name) == new_name # ""

\* st.button("Add Profile") and new_name and new_name not in ss.profiles
AddProfileApplies(new_name) == new_name # "" /\ new_name \notin DOMAIN profiles

\* The mutant of CreateProfile: the passport of the new profile is not created.
CreateProfileNoPassport(new_name) ==
    /\ profiles' = Put(profiles, new_name, NewProfile)
    /\ vitals' = Put(vitals, new_name, <<>>)
    /\ meds' = Put(meds, new_name, <<>>)
    /\ records' = Put(records, new_name, <<>>)
    /\ passport' = passport

CreateProfile(new_name) ==
    /\ profiles' = Put(profiles, new_name, NewProfile)
    /\ vitals' = Put(vitals, new_name, <<>>)
    /\ meds' = Put(meds, new_name, <<>>)
    /\ records' = Put(records, new_name, <<>>)
    /\ passport' = Put(passport, new_name, EmptyPassport)

AddProfile(new_name) ==
    /\ page = ConsumerPage
    /\ IF AddProfileApplies(new_name)
       THEN /\ CreateProfile(new_name)
            /\ last' = Interaction("add_profile", "applied", [name |-> new_name])
       ELSE /\ UNCHANGED <<profiles, vitals, meds, records, passport>>
            /\ last' = Interaction("add_profile", "ignored", [name |-> new_name])
    /\ view' = ConsumerView(active_profile, passport', vitals')
    /\ UNCHANGED <<page, active_profile, hospitalVars, homeVars>>

\* The text the passport and medication inputs show before they are edited
PassportDefault(field) == Join(passport[active_profile][field])
MedsDefault == Join(meds[active_profile])

\* The mutant of NewPassport: the new lists are merged into the old ones.
NewPassportMerged(imms, alls, cond) ==
    [immunizations |-> passport[active_profile].immunizations \o ParseList(imms),
     allergies |-> passport[active_profile].allergies \o ParseList(alls),
     conditions |-> passport[active_profile].conditions \o ParseList(cond)]

NewPassport(imms, alls, cond) ==
    [immunizations |-> ParseList(imms),
     allergies |-> ParseList(alls),
     conditions |-> ParseList(cond)]

\* st.button("Update Passport")
UpdatePassport(imms, alls, cond) ==
    /\ page = ConsumerPage
    /\ passport' = [passport EXCEPT ![active_profile] = NewPassport(imms, alls, cond)]
    /\ last' = Interaction("update_passport", "applied",
                           [imms |-> imms, alls |-> alls, cond |-> cond,
                            old |-> passport[active_profile]])
    /\ view' = ConsumerView(active_profile, passport', vitals)
    /\ UNCHANGED <<page, active_profile, profiles, vitals, meds, records, hospitalVars, homeVars>>

\* The mutant of SaveMeds: the list is saved for every profile.
SaveMedsEveryProfile(meds_str) ==
    /\ page = ConsumerPage
    /\ meds' = [p \in DOMAIN meds |-> ParseList(meds_str)]
    /\ last' = Interaction("save_medications", "applied", [meds_str |-> meds_str])
    /\ view' = ConsumerView(active_profile, passport, vitals)
    /\ UNCHANGED <<page, active_profile, profiles, vitals, records, passport,
                   hospitalVars, homeVars>>

\* st.button("Save Med List")
SaveMeds(meds_str) ==
    /\ page = ConsumerPage
    /\ meds' = [meds EXCEPT ![active_profile] = ParseList(meds_str)]
    /\ last' = Interaction("save_medications", "applied", [meds_str |-> meds_str])
    /\ view' = ConsumerView(active_profile, passport, vitals)
    /\ UNCHANGED <<page, active_profile, profiles, vitals, records, passport, hospitalVars, homeVars>>

\* The four number inputs of "Log Vitals" deliver the values
VitalsDelivered(sys, dia, hr, glu) ==
    /\ NumberInput(SysMin, SysMax, sys)
    /\ NumberInput(DiaMin, DiaMax, dia)
    /\ NumberInput(HrMin, HrMax, hr)
    /\ NumberInput(GluMin, GluMax, glu)

VitalsRow(d, t, sys, dia, hr, glu) ==
    [date |-> d, time |-> t, systolic |-> sys, diastolic |-> dia,
     hr |-> hr, glucose |-> glu]

\* The mutant of ConcatRow: the new row is put first.
ConcatRowFirst(df, row) == <<row>> \o df

\* pd.concat([df, pd.DataFrame([row])], ignore_index=True)
ConcatRow(df, row) == Append(df, row)

\* st.button("Add Entry")
LogVitals(d, t, sys, dia, hr, glu) ==
    /\ page = ConsumerPage
    /\ IF VitalsDelivered(sys, dia, hr, glu)
       THEN /\ vitals' = [vitals EXCEPT ![active_profile] =
                              ConcatRow(@, VitalsRow(d, t, sys, dia, hr, glu))]
            /\ last' = Interaction("append_entry", "applied",
                                   VitalsRow(d, t, sys, dia, hr, glu))
       ELSE /\ UNCHANGED vitals
            /\ last' = Interaction("append_entry", "refused",
                                   VitalsRow(d, t, sys, dia, hr, glu))
    /\ view' = ConsumerView(active_profile, passport, vitals')
    /\ UNCHANGED <<page, active_profile, profiles, meds, records, passport, hospitalVars, homeVars>>

-----------------------------------------------------------------------------
(* Viatra (Hospital) *)

PatientDelivered(age, sex) ==
    /\ NumberInput(AgeMin, AgeMax, age)
    /\ Selectbox(SexOptions, sex)

PatientRow(pid, pname, age, sex, pall, pcom) ==
    [id |-> pid, name |-> pname, age |-> age, sex |-> sex,
     allergies |-> pall, comorbidities |-> pcom]

\* The mutant of DropId: no row is dropped before the new one is added.
DropIdKeepAll(df, pid) == df

\* df[df["id"] != pid]
DropId(df, pid) == SelectSeq(df, LAMBDA r : r.id # pid)

\* st.button("Add / Update Patient")
UpsertPatient(pid, pname, age, sex, pall, pcom) ==
    /\ page = HospitalPage
    /\ IF PatientDelivered(age, sex)
       THEN /\ patients' = ConcatRow(DropId(patients, pid),
                                     PatientRow(pid, pname, age, sex, pall, pcom))
            /\ last' = Interaction("upsert_patient",
                                   IF \E i \in DOMAIN patients : patients[i].id = pid
                                   THEN "replaced" ELSE "inserted",
                                   PatientRow(pid, pname, age, sex, pall, pcom))
       ELSE /\ UNCHANGED patients
            /\ last' = Interaction("upsert_patient", "refused",
                                   PatientRow(pid, pname, age, sex, pall, pcom))
    /\ view' = HospitalTabs(patients', roster, chat)
    /\ UNCHANGED <<page, consumerVars, roster, chat, homeVars>>

RosterRow(rdate, rshift, rdoc) ==
    [date |-> IsoFormat(rdate), shift |-> rshift, doctor |-> rdoc]

\* st.button("Add to Roster")
AddRoster(rdate, rshift, rdoc) ==
    /\ page = HospitalPage
    /\ IF Selectbox(Range(ShiftOptions), rshift)
       THEN /\ roster' = ConcatRow(roster, RosterRow(rdate, rshift, rdoc))
            /\ last' = Interaction("add_roster_entry", "applied",
                                   RosterRow(rdate, rshift, rdoc))
       ELSE /\ UNCHANGED roster
            /\ last' = Interaction("add_roster_entry", "refused",
                                   [date |-> IsoFormat(rdate), shift |-> rshift,
                                    doctor |-> rdoc])
    /\ view' = HospitalTabs(patients, roster', chat)
    /\ UNCHANGED <<page, consumerVars, patients, chat, homeVars>>

\* st.button("Send") and msg; when is datetime.utcnow().isoformat()
SendMessage(msg, when) ==
    /\ page = HospitalPage
    /\ IF msg # ""
       THEN /\ chat' = Append(chat, [when |-> when, who |-> ChatAuthor, msg |-> msg])
            /\ last' = Interaction("append_message", "applied",
                                   [when |-> when, msg |-> msg])
       ELSE /\ UNCHANGED chat
            /\ last' = Interaction("append_message", "ignored",
                                   [when |-> when, msg |-> msg])
    /\ view' = HospitalTabs(patients, roster, chat')
    /\ UNCHANGED <<page, consumerVars, patients, roster, homeVars>>

-----------------------------------------------------------------------------
(* Home / About *)

PilotRequest(org, email, use_case, notes, created) ==
    [org |-> org, email |-> email, use_case |-> use_case, notes |-> notes,
     created |-> created]

\* st.form_submit_button("Request Pilot"); created is datetime.utcnow().isoformat()
RequestPilot(org, email, use_case, notes, created) ==
    /\ page = HomePage
    /\ IF Selectbox(UseCaseOptions, use_case)
       THEN /\ pilot_requests' = Append(pilot_requests,
                                        PilotRequest(org, email, use_case, notes, created))
            /\ last' = Interaction("append_pilot_request", "applied",
                                   PilotRequest(org, email, use_case, notes, created))
       ELSE /\ UNCHANGED pilot_requests
            /\ last' = Interaction("append_pilot_request", "refused",
                                   PilotRequest(org, email, use_case, notes, created))
    /\ view' = HomeTable(pilot_requests')
    /\ UNCHANGED <<page, consumerVars, hospitalVars>>

-----------------------------------------------------------------------------
(* Inputs *)

Empty == <<>>
TextAB == <<"A", ",", " ", "B">>                           \* "A, B"
TextC == <<"C">>                                            \* "C"
TextMessy == <<" ", "A", " ", ",", " ", " ", ",", "B">>     \* " A ,  ,B"

NameInputs == {"", "Me", "Sam"}

\* Every text of at most MaxTextLen characters over a letter, a blank and a comma
Alphabet == {"A", " ", ","}
TypedTexts == UNION {[1..k -> Alphabet] : k \in 0..MaxTextLen}

MedsSamples == {TextAB, TextMessy}
PassportSamples == {<<TextAB, Empty, TextC>>, <<TextC, TextMessy, Empty>>}
PassportRedisplayed ==
    <<PassportDefault("immunizations"), PassportDefault("allergies"),
      PassportDefault("conditions")>>

Stamps == {<<"2024-01-01", "08:00">>}

\* (systolic, diastolic, heart rate, glucose): the defaults of the widgets, and
\* each field at and just outside its two limits
VitalsDefaults == <<SysDefault, DiaDefault, HrDefault, GluDefault>>
VitalsLimits ==
    {[VitalsDefaults EXCEPT ![1] = v] : v \in {SysMin - 1, SysMin, SysMax, SysMax + 1}}
    \cup {[VitalsDefaults EXCEPT ![2] = v] : v \in {DiaMin - 1, DiaMin, DiaMax, DiaMax + 1}}
    \cup {[VitalsDefaults EXCEPT ![3] = v] : v \in {HrMin - 1, HrMin, HrMax, HrMax + 1}}
    \cup {[VitalsDefaults EXCEPT ![4] = v] : v \in {GluMin - 1, GluMin, GluMax, GluMax + 1}}
VitalsFew == {VitalsDefaults, [VitalsDefaults EXCEPT ![1] = SysMin - 1]}
VitalsTwo == {VitalsDefaults, [VitalsDefaults EXCEPT ![1] = SysMax],
              [VitalsDefaults EXCEPT ![1] = SysMax + 1]}

PatientIds == {"A1", "B2", ""}
PatientAges == {34, 35, AgeMax + 1}
PatientSexes == {"F", "X"}
PatientAllergies == {"none", "penicillin"}

RosterDates == {<<2024, 1, 1>>, <<2024, 1, 2>>}
RosterShifts == Range(ShiftOptions) \cup {"Dawn"}
RosterDoctors == {"Dr. A", "Dr. B"}

\* datetime.utcnow().isoformat() of the rerun
UtcNow == {"2024-01-01T08:00:00"}

-----------------------------------------------------------------------------
(* Specifications *)

\* The log is capped: a row is added only below the cap
LogVitalsUpTo(cap, d, t, v) ==
    /\ VitalsDelivered(v[1], v[2], v[3], v[4]) => Len(vitals[active_profile]) < cap
    /\ LogVitals(d, t, v[1], v[2], v[3], v[4])

\* The profile registry with its per-profile stores
NextProfiles ==
    \/ \E p \in Pages : Navigate(p)
    \/ \E n \in NameInputs : SelectActive(n)
    \/ \E n \in NameInputs : AddProfile(n)
    \/ \E t \in PassportSamples \cup {PassportRedisplayed} :
           UpdatePassport(t[1], t[2], t[3])
    \/ \E m \in MedsSamples \cup {MedsDefault} : SaveMeds(m)
    \/ \E s \in Stamps, v \in VitalsFew : LogVitalsUpTo(MaxLog, s[1], s[2], v)

SpecProfiles == Init /\ [][NextProfiles]_vars

\* The vitals log of one profile, with inputs at the limits of the widgets
NextVitals ==
    \/ \E p \in Pages : Navigate(p)
    \/ \E s \in Stamps, v \in VitalsLimits : LogVitalsUpTo(MaxLog, s[1], s[2], v)

SpecVitals == Init /\ [][NextVitals]_vars

\* The vitals log of one profile, longer than the table that shows it
NextTail ==
    \/ \E p \in Pages : Navigate(p)
    \/ \E s \in Stamps, v \in VitalsTwo : LogVitalsUpTo(MaxTailLog, s[1], s[2], v)

SpecTail == Init /\ [][NextTail]_vars

\* The comma-separated text inputs of one profile
NextText ==
    \/ \E p \in Pages : Navigate(p)
    \/ \E m \in TypedTexts \cup MedsSamples \cup {MedsDefault} : SaveMeds(m)
    \/ \E t \in PassportSamples \cup {PassportRedisplayed} :
           UpdatePassport(t[1], t[2], t[3])

SpecText == Init /\ [][NextText]_vars

\* The patient registry
NextPatients ==
    \/ \E p \in Pages : Navigate(p)
    \/ \E pid \in PatientIds, age \in PatientAges, sex \in PatientSexes,
          pall \in PatientAllergies :
           UpsertPatient(pid, "Jane", age, sex, pall, "none")

SpecPatients == Init /\ [][NextPatients]_vars

\* The roster is capped: a row is added only below the cap
AddRosterUpTo(cap, rdate, rshift, rdoc) ==
    /\ Selectbox(Range(ShiftOptions), rshift) => Len(roster) < cap
    /\ AddRoster(rdate, rshift, rdoc)

\* The chat is capped: a message is added only below the cap
SendMessageUpTo(cap, msg, when) ==
    /\ msg # "" => Len(chat) < cap
    /\ SendMessage(msg, when)

\* The requests are capped: a request is added only below the cap
RequestPilotUpTo(cap, org, email, use_case, notes, created) ==
    /\ Selectbox(UseCaseOptions, use_case) => Len(pilot_requests) < cap
    /\ RequestPilot(org, email, use_case, notes, created)

\* The roster
NextRoster ==
    \/ \E p \in Pages : Navigate(p)
    \/ \E d \in RosterDates, sh \in RosterShifts, doc \in RosterDoctors :
           AddRosterUpTo(MaxRoster, d, sh, doc)

SpecRoster == Init /\ [][NextRoster]_vars

\* Every page and every handler, with the small inputs
Next ==
    \/ \E p \in Pages : Navigate(p)
    \/ \E n \in {"Me", "Sam"} : SelectActive(n)
    \/ AddProfile("Sam")
    \/ UpdatePassport(TextAB, Empty, TextC)
    \/ SaveMeds(TextAB)
    \/ \E s \in Stamps : LogVitalsUpTo(MaxRows, s[1], s[2], VitalsDefaults)
    \/ \E age \in {34, 35} : UpsertPatient("A1", "Jane", age, "F", "none", "none")
    \/ AddRosterUpTo(MaxRows, <<2024, 1, 1>>, "Night", "Dr. A")
    \/ \E when \in UtcNow : SendMessageUpTo(MaxRows, "hello", when)
    \/ \E when \in UtcNow :
           RequestPilotUpTo(MaxRows, "Acme", "a@acme.org", "Hospital pilot", "none", when)

Spec == Init /\ [][Next]_vars

-----------------------------------------------------------------------------
(* Properties *)

Stores == <<active_profile, profiles, vitals, meds, records, passport, patients,
            roster, chat, pilot_requests>>

IdsOf(df) == {df[i].id : i \in DOMAIN df}
OtherRows(df, pid) == SelectSeq(df, LAMBDA r : r.id # pid)

\* C1: in every reachable state of the patient registry, whatever sequence
\* of upserts led to it (repeated identical submissions and reused ids
\* included), no two rows of the patient table carry the same id.
C1_PatientIdsUnique ==
    \A i, j \in DOMAIN patients : patients[i].id = patients[j].id => i = j

\* An upsert has just replaced the row of an id that was present, next to
\* the row of another id.
C1_Witness ==
    /\ last.op = "upsert_patient"
    /\ last.outcome = "replaced"
    /\ Len(patients) = 2

\* C2: an upsert of an id that is present leaves exactly one row with that
\* id, that row carries the values of this call and is the last row of the
\* table and of the listing shown, and the rows of the other ids keep their
\* values and their relative order.
C2_UpsertReplacesAndMovesLast ==
    [][(last'.op = "upsert_patient" /\ last'.outcome = "replaced") =>
          LET r == last'.args IN
          /\ r.id \in IdsOf(patients)
          /\ Cardinality({i \in DOMAIN patients' : patients'[i].id = r.id}) = 1
          /\ patients'[Len(patients')] = r
          /\ OtherRows(patients', r.id) = OtherRows(patients, r.id)
          /\ Len(patients') = Len(patients)
          /\ view'.patients = patients'
      ]_vars

\* The second call for "A1" changed age and allergies; the row of "B2",
\* upserted in between, is kept in front of it.
C2_Witness ==
    /\ last.op = "upsert_patient"
    /\ last.outcome = "replaced"
    /\ Len(patients) = 2
    /\ patients[1].id = "B2"
    /\ patients[2] = PatientRow("A1", "Jane", 35, "F", "penicillin", "none")
    /\ view.patients = patients

\* C3: in every reachable state the vitals, meds, records and passport
\* stores have exactly the names of the profile registry as their keys.
C3_StoresFollowRegistry ==
    /\ DOMAIN vitals = DOMAIN profiles
    /\ DOMAIN meds = DOMAIN profiles
    /\ DOMAIN records = DOMAIN profiles
    /\ DOMAIN passport = DOMAIN profiles

\* A second profile was added and its own stores were written.
C3_Witness ==
    /\ DOMAIN profiles = {"Me", "Sam"}
    /\ active_profile = "Sam"
    /\ vitals["Sam"] # <<>>
    /\ meds["Sam"] # <<>>
    /\ passport["Sam"] # EmptyPassport

ProfileStores == <<profiles, vitals, meds, records, passport>>

\* C4: add_profile with an empty name or a name of the registry raises
\* nothing and changes no store, so the stores of that profile keep their
\* contents; with a new name it adds that one name, with empty vitals, meds
\* and records and a passport of three empty lists, and leaves the stores of
\* the other profiles as they are.
C4_AddProfile ==
    [][last'.op = "add_profile" =>
          LET n == last'.args.name IN
          /\ last'.error = "none"
          /\ IF n = "" \/ n \in DOMAIN profiles
             THEN /\ last'.outcome = "ignored"
                  /\ ProfileStores' = ProfileStores
             ELSE /\ last'.outcome = "applied"
                  /\ DOMAIN profiles' = DOMAIN profiles \cup {n}
                  /\ vitals'[n] = <<>>
                  /\ meds'[n] = <<>>
                  /\ records'[n] = <<>>
                  /\ passport'[n] = [immunizations |-> <<>>, allergies |-> <<>>,
                                     conditions |-> <<>>]
                  /\ \A m \in DOMAIN profiles :
                        /\ profiles'[m] = profiles[m]
                        /\ vitals'[m] = vitals[m]
                        /\ meds'[m] = meds[m]
                        /\ records'[m] = records[m]
                        /\ passport'[m] = passport[m]
      ]_vars

\* "Sam" was added a second time while its stores held data.
C4_Witness ==
    /\ last.op = "add_profile"
    /\ last.outcome = "ignored"
    /\ last.args.name = "Sam"
    /\ "Sam" \in DOMAIN profiles
    /\ vitals["Sam"] # <<>>
    /\ meds["Sam"] # <<>>
    /\ passport["Sam"] # EmptyPassport

IsPrefix(a, b) == Len(a) <= Len(b) /\ SubSeq(b, 1, Len(a)) = a

\* The last min(n, length) rows, in insertion order
LastRows(df, n) ==
    LET k == Min(n, Len(df)) IN [i \in 1..k |-> df[Len(df) - k + i]]

\* C5: the vitals log is append-only: in every step each log is a prefix of
\* what it is afterwards, and an entry that is added makes the log of the
\* active profile one longer, with that entry last; tail(n) is the last
\* min(n, length) rows in insertion order for every n, the table shown is
\* tail(6), and both are empty for a log with no rows.
C5_AppendOnlyAndTail ==
    /\ [](\A p \in DOMAIN vitals : \A n \in 0..(MaxTailLog + 1) :
             TailOf(vitals[p], n) = LastRows(vitals[p], n))
    /\ [](\A p \in DOMAIN vitals : vitals[p] = <<>> => TailOf(vitals[p], TailRows) = <<>>)
    /\ [](page = ConsumerPage =>
             view.vitals_table = LastRows(vitals[active_profile], TailRows))
    /\ [][\A p \in DOMAIN vitals : IsPrefix(vitals[p], vitals'[p])]_vars
    /\ [][(last'.op = "append_entry" /\ last'.outcome = "applied") =>
             /\ Len(vitals'[active_profile]) = Len(vitals[active_profile]) + 1
             /\ vitals'[active_profile][Len(vitals'[active_profile])] = last'.args
         ]_vars

\* An entry was added to a log that is longer than the table, and the
\* first and the last row differ.
C5_Witness ==
    /\ last.op = "append_entry"
    /\ last.outcome = "applied"
    /\ Len(vitals["Me"]) > TailRows
    /\ vitals["Me"][1].systolic # vitals["Me"][Len(vitals["Me"])].systolic
    /\ Len(view.vitals_table) = TailRows
    /\ view.vitals_table[TailRows] = last.args

InRange(r) ==
    /\ r.systolic \in SysMin..SysMax
    /\ r.diastolic \in DiaMin..DiaMax
    /\ r.hr \in HrMin..HrMax
    /\ r.glucose \in GluMin..GluMax

ListAB == << <<"A">>, <<"B">> >>
ListC == << <<"C">> >>

\* The lists the sample texts stand for
ExpectedList(text) ==
    CASE text = Empty -> <<>>
      [] text = TextAB -> ListAB
      [] text = TextC -> ListC
      [] text = TextMessy -> ListAB

SampleTexts == {Empty, TextAB, TextC, TextMessy}

\* C6: update_passport replaces the three lists of the active profile by the
\* lists its three texts stand for, whatever the passport held before ("A, B"
\* gives [A, B], and "C" after it gives [C] alone), and leaves the passports
\* of the other profiles alone; the same update applied a second time in a
\* row changes nothing.
C6_UpdatePassportReplaces ==
    /\ [][last'.op = "update_passport" =>
             LET a == last'.args IN
             /\ {a.imms, a.alls, a.cond} \subseteq SampleTexts
             /\ passport'[active_profile] =
                    [immunizations |-> ExpectedList(a.imms),
                     allergies |-> ExpectedList(a.alls),
                     conditions |-> ExpectedList(a.cond)]
             /\ \A p \in DOMAIN passport \ {active_profile} : passport'[p] = passport[p]
         ]_vars
    /\ [][(/\ last.op = "update_passport"
           /\ last'.op = "update_passport"
           /\ last'.args.imms = last.args.imms
           /\ last'.args.alls = last.args.alls
           /\ last'.args.cond = last.args.cond) => passport' = passport]_vars

\* A passport that held [A, B] as immunizations was updated with "C" and
\* holds [C] alone.
C6_Witness ==
    /\ last.op = "update_passport"
    /\ last.args.old.immunizations = ListAB
    /\ last.args.imms = TextC
    /\ passport[active_profile].immunizations = ListC
    /\ passport[active_profile].allergies = ListAB
    /\ passport[active_profile].conditions = <<>>

StoredLists ==
    UNION {{meds[p], passport[p].immunizations, passport[p].allergies,
            passport[p].conditions} : p \in DOMAIN profiles}

CleanItem(x) ==
    /\ x # <<>>
    /\ x[1] # " "
    /\ x[Len(x)] # " "
    /\ \A i \in DOMAIN x : x[i] # ","

\* C7: no stored medication or passport list holds an empty item, an item
\* with a blank at either end or an item with a comma; joining a stored list
\* with ", " and splitting the text again gives the same list, so saving the
\* medication text as it is redisplayed changes nothing; the text
\* " A ,  ,B" is stored as [A, B].
C7_SplitTrimDropAndRoundTrip ==
    /\ [](\A l \in StoredLists : \A i \in DOMAIN l : CleanItem(l[i]))
    /\ [](\A l \in StoredLists : ParseList(Join(l)) = l)
    /\ [][(last'.op = "save_medications" /\ last'.args.meds_str = MedsDefault) =>
             meds' = meds]_vars
    /\ [][(last'.op = "save_medications" /\ last'.args.meds_str = TextMessy) =>
             meds'[active_profile] = ListAB]_vars

\* The text " A ,  ,B" was saved as the medication list [A, B].
C7_Witness ==
    /\ last.op = "save_medications"
    /\ last.args.meds_str = TextMessy
    /\ meds[active_profile] = ListAB

PassportKeys == {"profile", "immunizations", "allergies", "conditions"}

\* C9: the passport document handed to the download button has exactly the
\* keys profile, immunizations, allergies and conditions, names the active
\* profile and holds that profile's current three lists; a rerun that only
\* renders the page changes no store; and a passport changes only by an
\* update of it, so the document of a profile never updated has three empty
\* lists.
C9_ExportPassport ==
    /\ [](page = ConsumerPage =>
             /\ DOMAIN view.passport_payload = PassportKeys
             /\ view.passport_payload["profile"] = active_profile
             /\ \A k \in PassportKeys \ {"profile"} :
                    view.passport_payload[k] = passport[active_profile][k])
    /\ [][last'.op = "navigate" => Stores' = Stores]_vars
    /\ [][\A p \in DOMAIN passport' :
             \/ p \in DOMAIN passport /\ passport'[p] = passport[p]
             \/ p \notin DOMAIN passport /\ passport'[p] = EmptyPassport
             \/ last'.op = "update_passport" /\ p = active_profile]_vars

\* "Sam" is active and was never updated while "Me" holds a passport: the
\* document names "Sam" with three empty lists.
C9_Witness ==
    /\ page = ConsumerPage
    /\ active_profile = "Sam"
    /\ passport["Me"] # EmptyPassport
    /\ view.passport_payload =
           [profile |-> "Sam", immunizations |-> <<>>, allergies |-> <<>>,
            conditions |-> <<>>]

ShiftRank(label) == CHOOSE i \in DOMAIN ShiftOptions : ShiftOptions[i] = label

Count(df, r) == Cardinality({i \in DOMAIN df : df[i] = r})

\* C11: the roster listing holds exactly the rows that were added,
\* duplicates included, ordered by date ascending and, for equal dates, by
\* shift in the declared order Morning, Evening, Night.
C11_SortedByDeclaredShiftOrder ==
    page = HospitalPage =>
        /\ Len(view.roster) = Len(roster)
        /\ \A r \in Range(roster) \cup Range(view.roster) :
               Count(view.roster, r) = Count(roster, r)
        /\ \A i, j \in DOMAIN view.roster :
               i < j =>
                   /\ ~StrLess(view.roster[j].date, view.roster[i].date)
                   /\ view.roster[i].date = view.roster[j].date =>
                          ShiftRank(view.roster[i].shift) <= ShiftRank(view.roster[j].shift)

\* Every store but the named one is left as it is
OnlyChanges(store) ==
    /\ store = "active_profile" \/ active_profile' = active_profile
    /\ profiles' = profiles
    /\ store = "vitals" \/ vitals' = vitals
    /\ store = "meds" \/ meds' = meds
    /\ records' = records
    /\ store = "passport" \/ passport' = passport
    /\ store = "patients" \/ patients' = patients
    /\ store = "roster" \/ roster' = roster
    /\ store = "chat" \/ chat' = chat
    /\ store = "pilot_requests" \/ pilot_requests' = pilot_requests

\* Of a per-profile store, only the entry of the active profile changes
OnlyActiveEntry(before, after) ==
    /\ DOMAIN after = DOMAIN before
    /\ \A p \in DOMAIN before \ {active_profile} : after[p] = before[p]

ChangedStores ==
    {i \in 1..Len(Stores) : Stores'[i] # Stores[i]}

\* C12: append_entry, update_passport and save_medications change only the
\* vitals, the passport and the medication list of the active profile, and
\* no other store, no other profile's entry, not the registry and not the
\* pointer; upsert_patient, add_roster_entry, append_message and
\* append_pilot_request change only the patient table, the roster, the chat
\* and the pilot requests; and a step that is not add_profile changes at most
\* one store.
C12_EachMutationTouchesOneStore ==
    [][/\ last'.op = "append_entry" =>
              OnlyChanges("vitals") /\ OnlyActiveEntry(vitals, vitals')
       /\ last'.op = "update_passport" =>
              OnlyChanges("passport") /\ OnlyActiveEntry(passport, passport')
       /\ last'.op = "save_medications" =>
              OnlyChanges("meds") /\ OnlyActiveEntry(meds, meds')
       /\ last'.op = "upsert_patient" => OnlyChanges("patients")
       /\ last'.op = "add_roster_entry" => OnlyChanges("roster")
       /\ last'.op = "append_message" => OnlyChanges("chat")
       /\ last'.op = "append_pilot_request" => OnlyChanges("pilot_requests")
       /\ last'.op # "add_profile" => Cardinality(ChangedStores) <= 1
      ]_vars

\* Medications were saved for "Sam" while "Me" and every other store held
\* data.
C12_Witness ==
    /\ last.op = "save_medications"
    /\ active_profile = "Sam"
    /\ meds["Sam"] # <<>>
    /\ meds["Me"] = <<>>
    /\ vitals["Me"] # <<>>
    /\ passport["Me"] # EmptyPassport
    /\ vitals["Sam"] # <<>>
    /\ patients # <<>>
    /\ roster # <<>>
    /\ chat # <<>>
    /\ pilot_requests # <<>>

====
